---- MODULE Spec2Model ----
(***************************************************************************)
(* shopify_pull.py: the nightly pull of Shopify inventory into a Notion    *)
(* staging data source.  A run fetches every page of variants.json and of  *)
(* inventory_levels.json, joins them, prints a CSV line per inventory      *)
(* level and upserts it (query, then create or update) into the store.     *)
(*                                                                         *)
(* Text is modelled as a sequence of one-character strings.  Python's None *)
(* (and an absent dict key read with .get) is the empty sequence of an     *)
(* optional value: <<>> is None, <<x>> is the value x.  A dict is a record *)
(* that holds only the keys that are present.  A JSON scalar whose type the *)
(* code tests is tagged: [num |-> n] is a number, [text |-> s] a string.    *)
(* One step of the model is one HTTP call together with the local          *)
(* computation that follows it up to the next HTTP call.                   *)
(***************************************************************************)
EXTENDS Integers, Sequences, FiniteSets, TLC

VARIABLES
    server,     \* Shopify: request URL -> response [body, link]
    store,      \* Notion data source: sequence of pages [url, props]
    store0,     \* the store as it was when the run(s) started
    calls,      \* every HTTP call issued so far, in order
    pc,         \* per run: the HTTP call the run is about to issue
    url,        \* shopify_get_all: url
    items,      \* shopify_get_all: items
    variants,   \* main: variants
    variant_by_inventory_item,  \* main: inventory_item_id -> variant
    product_id_by_variant,      \* main: variant id -> product_id (optional)
    levels,     \* main: levels
    idx,        \* main: position of lvl in levels (1-based)
    row,        \* main: row of the current lvl
    page_url,   \* notion_upsert: page_url
    csv         \* sys.stdout: the CSV lines written so far

vars == <<server, store, store0, calls, pc, url, items, variants,
          variant_by_inventory_item, product_id_by_variant, levels, idx,
          row, page_url, csv>>

Runs == {1, 2}

-----------------------------------------------------------------------------
(* Bounds of the model *)

\* pages one resource may be spread over in the fetch specification
MaxPages == 2
\* GET requests one shopify_get_all call may issue before the model stops it
MaxRequests == 3
\* variants the source returns in the join specification
MaxVariants == 2
\* inventory levels the source returns
MaxLevels == 2
\* pages the store holds before the run
MaxStore == 2

-----------------------------------------------------------------------------
(* Text helpers *)

Range(s) == {s[i] : i \in DOMAIN s}

Min(S) == CHOOSE x \in S : \A y \in S : x <= y

\* str.find(c): the 0-based index of the first c, -1 when there is none
Find(s, c) ==
    IF c \in Range(s) THEN Min({i \in DOMAIN s : s[i] = c}) - 1 ELSE -1

\* s[a:b] of Python (0-based, b exclusive)
Slice(s, a, b) == SubSeq(s, a + 1, b)

\* str.split(",")
RECURSIVE Split(_)
Split(s) ==
    IF "," \in Range(s)
    THEN LET i == Find(s, ",")
         IN  <<Slice(s, 0, i)>> \o Split(Slice(s, i + 1, Len(s)))
    ELSE <<s>>

\* str.strip(): surrounding blanks removed
RECURSIVE LStrip(_)
LStrip(s) == IF s # <<>> /\ Head(s) = " " THEN LStrip(Tail(s)) ELSE s

RECURSIVE RStrip(_)
RStrip(s) ==
    IF s # <<>> /\ s[Len(s)] = " " THEN RStrip(SubSeq(s, 1, Len(s) - 1)) ELSE s

Strip(s) == RStrip(LStrip(s))

DigitChar == <<"0", "1", "2", "3", "4", "5", "6", "7", "8", "9">>

\* str(n) of a non-negative integer
RECURSIVE Str(_)
Str(n) ==
    IF n < 10 THEN <<DigitChar[n + 1]>>
    ELSE Str(n \div 10) \o <<DigitChar[(n % 10) + 1]>>

\* dict.get(k): an optional value
Get(d, k) == IF k \in DOMAIN d THEN <<d[k]>> ELSE <<>>

\* str(x or "") of an optional integer
StrOrEmpty(x) == IF x = <<>> THEN <<>> ELSE Str(x[1])

RECURSIVE Flatten(_)
Flatten(ss) == IF ss = <<>> THEN <<>> ELSE Head(ss) \o Flatten(Tail(ss))

RECURSIVE SumLen(_)
SumLen(ss) == IF ss = <<>> THEN 0 ELSE Len(Head(ss)) + SumLen(Tail(ss))

IsPrefix(s, t) == Len(s) <= Len(t) /\ SubSeq(t, 1, Len(s)) = s

-----------------------------------------------------------------------------
(* shopify_get_all *)

\* The Link header is a sequence of tokens; the token "N" stands for the text
\* rel="next" and "P" for rel="previous".
RelNext == "N"

\* 'rel="next"' in link
HasNext(link) == RelNext \in Range(link)

\* A faulty next_url, for comparison: cut out of the first part of the
\* header, whether or not it is the one that carries rel="next"
NextUrlFirstPart(link) ==
    LET part == Split(link)[1]
        s == Find(part, "<") + 1
        e == Find(part, ">")
    IN  IF HasNext(link) /\ s > 0 /\ e > s THEN Slice(part, s, e) ELSE <<>>

\* The URL of the first part of the Link header that carries rel="next":
\* the text between its first "<" and its first ">"; None (<<>>) when the
\* header carries no rel="next" or no URL can be cut out of that part.
NextUrl(link) ==
    IF ~HasNext(link) THEN <<>>
    ELSE LET parts == Split(link)
             k == Min({i \in DOMAIN parts : RelNext \in Range(parts[i])})
             part == parts[k]
             s == Find(part, "<") + 1
             e == Find(part, ">")
         IN  IF s > 0 /\ e > s THEN Slice(part, s, e) ELSE <<>>

\* A JSON body is [top |-> "dict", fields |-> <<[key, list, val], ...>>] with
\* the fields in document order (list says whether val is an array), or
\* [top |-> "list", val |-> <<...>>].
EnvelopeKeys == <<"variants", "inventory_levels", "products">>

HasKey(body, k) == \E i \in DOMAIN body.fields : body.fields[i].key = k

Field(body, k) ==
    body.fields[Min({i \in DOMAIN body.fields : body.fields[i].key = k})].val

RECURSIVE FlattenLists(_)
FlattenLists(fs) ==
    IF fs = <<>> THEN <<>>
    ELSE (IF Head(fs).list THEN Head(fs).val ELSE <<>>) \o FlattenLists(Tail(fs))

\* The items one response body adds: the first known envelope key present,
\* else every array value of the object, else the body itself when an array.
Contribution(body) ==
    IF body.top = "dict"
    THEN IF \E j \in DOMAIN EnvelopeKeys : HasKey(body, EnvelopeKeys[j])
         THEN Field(body, EnvelopeKeys[
                  Min({j \in DOMAIN EnvelopeKeys : HasKey(body, EnvelopeKeys[j])})])
         ELSE FlattenLists(body.fields)
    ELSE body.val

\* A faulty extend, for comparison: items = data[k]
ExtendReplace(its, more) == more

\* items.extend(data[k])
Extend(its, more) == its \o more

VariantsUrl == <<"v">>
LevelsUrl == <<"l">>

-----------------------------------------------------------------------------
(* main: the join of inventory levels with variants *)

EmptyMap == [k \in {} |-> <<>>]

\* d[k] = x
Put(d, k, x) == [y \in DOMAIN d \cup {k} |-> IF y = k THEN x ELSE d[y]]

\* d.get(k) of a dict whose values are optional values, k an optional value
MapGet(d, k) == IF k # <<>> /\ k[1] \in DOMAIN d THEN d[k[1]] ELSE <<>>

\* A faulty mapping, for comparison: dict.setdefault, the first variant of
\* an inventory item wins
RECURSIVE VariantByInventoryItemFirstWins(_)
VariantByInventoryItemFirstWins(vs) ==
    IF vs = <<>> THEN EmptyMap
    ELSE LET m == VariantByInventoryItemFirstWins(SubSeq(vs, 1, Len(vs) - 1))
             v == vs[Len(vs)]
         IN  IF "inventory_item_id" \in DOMAIN v
                /\ v.inventory_item_id \notin DOMAIN m
             THEN Put(m, v.inventory_item_id, <<v>>)
             ELSE m

\* for v in variants: if inv_item_id is not None:
\*     variant_by_inventory_item[inv_item_id] = v
RECURSIVE VariantByInventoryItem(_)
VariantByInventoryItem(vs) ==
    IF vs = <<>> THEN EmptyMap
    ELSE LET m == VariantByInventoryItem(SubSeq(vs, 1, Len(vs) - 1))
             v == vs[Len(vs)]
         IN  IF "inventory_item_id" \in DOMAIN v
             THEN Put(m, v.inventory_item_id, <<v>>)
             ELSE m

\* for v in variants: if "id" in v:
\*     product_id_by_variant[v["id"]] = v.get("product_id")
RECURSIVE ProductIdByVariant(_)
ProductIdByVariant(vs) ==
    IF vs = <<>> THEN EmptyMap
    ELSE LET m == ProductIdByVariant(SubSeq(vs, 1, Len(vs) - 1))
             v == vs[Len(vs)]
         IN  IF "id" \in DOMAIN v
             THEN Put(m, v.id, Get(v, "product_id"))
             ELSE m

\* now_iso: one timestamp per run
NowIso == <<"T">>

\* The row main builds for one inventory level.
EnrichedRow(lvl, byItem, byVariant) ==
    LET v == MapGet(byItem, Get(lvl, "inventory_item_id"))
        found == v # <<>> /\ DOMAIN v[1] # {}
        sku == IF found /\ "sku" \in DOMAIN v[1] THEN Strip(v[1].sku) ELSE <<>>
        variant_id == IF found THEN StrOrEmpty(Get(v[1], "id")) ELSE <<>>
        product_id ==
            IF found THEN StrOrEmpty(MapGet(byVariant, Get(v[1], "id")))
            ELSE <<>>
    IN  [SKU |-> sku,
         VariantID |-> variant_id,
         ProductID |-> product_id,
         Available |-> Get(lvl, "available"),
         LocationID |-> StrOrEmpty(Get(lvl, "location_id")),
         LocationName |-> <<>>,
         UpdatedAt |-> NowIso]

Header ==
    <<<<"SKU">>, <<"Shopify Variant ID">>, <<"Shopify Product ID">>,
      <<"Available">>, <<"Location ID">>, <<"Location Name">>,
      <<"Updated At">>>>

\* out.writerow([...]) of one row
CsvLine(rw) ==
    <<rw.SKU, rw.VariantID, rw.ProductID, rw.Available, rw.LocationID,
      rw.LocationName, rw.UpdatedAt>>

\* A faulty main, for comparison: the row is not printed
WriteRowSkipped(out, rw) == out

\* out.writerow([...]) appends the line to the stream
WriteRow(out, rw) == Append(out, CsvLine(rw))

-----------------------------------------------------------------------------
(* Notion helpers *)

UPSERT_KEY_FIELDS == {"SKU", "LocationID"}

\* to_float: float(x) of a number; None when float raises (x is None or a
\* text that is no number, as all texts of the model are)
ToFloat(x) == IF x # <<>> /\ "num" \in DOMAIN x[1] THEN <<x[1].num>> ELSE <<>>

build_props(rw) ==
    [SKU |-> rw.SKU,
     VariantID |-> rw.VariantID,
     ProductID |-> rw.ProductID,
     Available |-> ToFloat(rw.Available),
     LocationID |-> rw.LocationID,
     LocationName |-> rw.LocationName,
     UpdatedAtStart |-> rw.UpdatedAt,
     Notes |-> <<>>,
     Name |-> Strip(rw.SKU \o <<" ", "@", " ">> \o rw.LocationID)]

\* Faulty tests, for comparison: all() in place of any(), and no test
KeyMissingAll(rw) == \A k \in UPSERT_KEY_FIELDS : rw[k] = <<>>

KeyMissingNever(rw) == FALSE

\* any(v == "" for v in filters.values())
KeyMissing(rw) == \E k \in UPSERT_KEY_FIELDS : rw[k] = <<>>

\* The pages of the store whose SKU and Location ID equal the row's (text_is)
Matches(st, rw) ==
    {i \in DOMAIN st : \A k \in UPSERT_KEY_FIELDS : st[i].props[k] = rw[k]}

\* notion_query_by_filters with page_size 1: no result when nothing matches,
\* else one matching page, whichever the store lists first
QueryResults(st, rw) ==
    IF Matches(st, rw) = {} THEN {<<>>}
    ELSE {<<st[i]>> : i \in Matches(st, rw)}

\* Faulty decisions, for comparison: the lookup ignored, and the url of the
\* match not tested
DecisionAlwaysCreate(existing) == "create"

DecisionUpdateAnyMatch(existing) ==
    IF existing # <<>> THEN "update" ELSE "create"

\* notion_upsert, after the query: the write it issues
Decision(existing) ==
    IF existing # <<>> /\ existing[1].url # <<>> THEN "update" ELSE "create"

\* The URL the store gives a new page
FreshUrl(st) == <<Len(st) + 1>>

\* notion_create: a new page; the store decides whether it exposes a url
Created(st, rw, u) == Append(st, [url |-> u, props |-> build_props(rw)])

\* notion_update: the properties of the page at page_url are replaced
Updated(st, pu, rw) ==
    [i \in DOMAIN st |->
        IF st[i].url = pu THEN [st[i] EXCEPT !.props = build_props(rw)]
        ELSE st[i]]

\* A faulty handler, for comparison: the error is swallowed and the call
\* issued again
AfterErrorRetry(p) == p

\* r.raise_for_status() on a non-success status: the exception leaves main
AfterError(p) == "failed"

-----------------------------------------------------------------------------
(* The steps of a run *)

\* The GET requests run r has issued in fetch phase ph
Gets(r, ph) ==
    {i \in DOMAIN calls :
        calls[i].run = r /\ calls[i].kind = "GET" /\ calls[i].phase = ph}

\* main's loop "for lvl in levels" entered at position i with the CSV lines
\* out: the row of lvl is built and printed, and notion_upsert reaches its
\* first HTTP call; past the last level main returns.
LoopFrom(r, i, lv, byItem, byVariant, out) ==
    IF i > Len(lv)
    THEN /\ pc' = [pc EXCEPT ![r] = "done"]
         /\ idx' = [idx EXCEPT ![r] = i]
         /\ row' = row
         /\ csv' = [csv EXCEPT ![r] = out]
    ELSE LET rw == EnrichedRow(lv[i], byItem, byVariant)
         IN  /\ pc' = [pc EXCEPT ![r] =
                          IF KeyMissing(rw) THEN "create" ELSE "query"]
             /\ idx' = [idx EXCEPT ![r] = i]
             /\ row' = [row EXCEPT ![r] = rw]
             /\ csv' = [csv EXCEPT ![r] = WriteRow(out, rw)]

\* One successful GET of shopify_get_all.  When the fetch ends, main goes on:
\* after the variants it builds the two maps and starts on the levels; after
\* the levels it prints the CSV header and enters the loop.
GetPage(r) ==
    /\ pc[r] \in {"get_variants", "get_levels"}
    /\ url[r] \in DOMAIN server
    /\ Cardinality(Gets(r, pc[r])) < MaxRequests
    /\ LET resp == server[url[r]]
           got == Extend(items[r], Contribution(resp.body))
           next_url == NextUrl(resp.link)
       IN  /\ calls' = Append(calls,
                  [run |-> r, kind |-> "GET", phase |-> pc[r], ok |-> TRUE,
                   url |-> url[r], resp |-> resp])
           /\ IF next_url # <<>>
              THEN /\ url' = [url EXCEPT ![r] = next_url]
                   /\ items' = [items EXCEPT ![r] = got]
                   /\ UNCHANGED <<pc, variants, variant_by_inventory_item,
                                  product_id_by_variant, levels, idx, row, csv>>
              ELSE IF pc[r] = "get_variants"
              THEN /\ variants' = [variants EXCEPT ![r] = got]
                   /\ variant_by_inventory_item' =
                          [variant_by_inventory_item EXCEPT
                              ![r] = VariantByInventoryItem(got)]
                   /\ product_id_by_variant' =
                          [product_id_by_variant EXCEPT
                              ![r] = ProductIdByVariant(got)]
                   /\ pc' = [pc EXCEPT ![r] = "get_levels"]
                   /\ url' = [url EXCEPT ![r] = LevelsUrl]
                   /\ items' = [items EXCEPT ![r] = <<>>]
                   /\ UNCHANGED <<levels, idx, row, csv>>
              ELSE /\ levels' = [levels EXCEPT ![r] = got]
                   /\ LoopFrom(r, 1, got, variant_by_inventory_item[r],
                               product_id_by_variant[r], <<Header>>)
                   /\ UNCHANGED <<url, items, variants,
                                  variant_by_inventory_item,
                                  product_id_by_variant>>
    /\ UNCHANGED <<server, store, store0, page_url>>

\* notion_query_by_filters answers; notion_upsert picks the write.
Query(r) ==
    /\ pc[r] = "query"
    /\ \E existing \in QueryResults(store, row[r]) :
          /\ calls' = Append(calls,
                 [run |-> r, kind |-> "query", phase |-> "rows", ok |-> TRUE,
                  idx |-> idx[r], row |-> row[r], existing |-> existing,
                  matching |-> Cardinality(Matches(store, row[r]))])
          /\ pc' = [pc EXCEPT ![r] = Decision(existing)]
          /\ page_url' = [page_url EXCEPT ![r] =
                 IF existing # <<>> THEN existing[1].url ELSE <<>>]
    /\ UNCHANGED <<server, store, store0, url, items, variants,
                   variant_by_inventory_item, product_id_by_variant, levels,
                   idx, row, csv>>

\* notion_create succeeds; main moves to the next level.
Create(r) ==
    /\ pc[r] = "create"
    /\ \E u \in {<<>>, FreshUrl(store)} :
          store' = Created(store, row[r], u)
    /\ calls' = Append(calls,
           [run |-> r, kind |-> "create", phase |-> "rows", ok |-> TRUE,
            idx |-> idx[r], row |-> row[r]])
    /\ LoopFrom(r, idx[r] + 1, levels[r], variant_by_inventory_item[r],
                product_id_by_variant[r], csv[r])
    /\ UNCHANGED <<server, store0, url, items, variants,
                   variant_by_inventory_item, product_id_by_variant, levels,
                   page_url>>

\* notion_update succeeds; main moves to the next level.
Update(r) ==
    /\ pc[r] = "update"
    /\ store' = Updated(store, page_url[r], row[r])
    /\ calls' = Append(calls,
           [run |-> r, kind |-> "update", phase |-> "rows", ok |-> TRUE,
            idx |-> idx[r], row |-> row[r], page_url |-> page_url[r]])
    /\ LoopFrom(r, idx[r] + 1, levels[r], variant_by_inventory_item[r],
                product_id_by_variant[r], csv[r])
    /\ UNCHANGED <<server, store0, url, items, variants,
                   variant_by_inventory_item, product_id_by_variant, levels,
                   page_url>>

\* The pending HTTP call answers with a non-success status (or the requested
\* URL does not exist): raise_for_status raises and nothing catches it.
RaiseForStatus(r) ==
    /\ pc[r] \in {"get_variants", "get_levels", "query", "create", "update"}
    /\ calls' = Append(calls,
           [run |-> r,
            kind |-> IF pc[r] \in {"get_variants", "get_levels"}
                     THEN "GET" ELSE pc[r],
            phase |-> IF pc[r] \in {"get_variants", "get_levels"}
                      THEN pc[r] ELSE "rows",
            ok |-> FALSE, idx |-> idx[r], row |-> row[r]])
    /\ pc' = [pc EXCEPT ![r] = AfterError(pc[r])]
    /\ UNCHANGED <<server, store, store0, url, items, variants,
                   variant_by_inventory_item, product_id_by_variant, levels,
                   idx, row, page_url, csv>>

Next ==
    \E r \in Runs :
        \/ GetPage(r)
        \/ Query(r)
        \/ Create(r)
        \/ Update(r)
        \/ RaiseForStatus(r)

-----------------------------------------------------------------------------
(* The source and the store a run starts from *)

NoRow == <<>>

\* The state in which the runs in active enter main.
Start(srv, st, active) ==
    /\ server = srv
    /\ store = st
    /\ store0 = st
    /\ calls = <<>>
    /\ pc = [r \in Runs |-> IF r \in active THEN "get_variants" ELSE "idle"]
    /\ url = [r \in Runs |-> VariantsUrl]
    /\ items = [r \in Runs |-> <<>>]
    /\ variants = [r \in Runs |-> <<>>]
    /\ variant_by_inventory_item = [r \in Runs |-> EmptyMap]
    /\ product_id_by_variant = [r \in Runs |-> EmptyMap]
    /\ levels = [r \in Runs |-> <<>>]
    /\ idx = [r \in Runs |-> 0]
    /\ row = [r \in Runs |-> NoRow]
    /\ page_url = [r \in Runs |-> <<>>]
    /\ csv = [r \in Runs |-> <<>>]

\* Sequences over S of length at most n
SeqUpTo(S, n) == UNION {[1..k -> S] : k \in 0..n}

\* The URL of page k of a resource: the first is the endpoint itself
PageUrl(res, k) == IF k = 1 THEN res ELSE res \o Str(k)

LinkTo(u) == <<"<">> \o u \o <<">", ";", RelNext>>

LinkBack(u) == <<"<">> \o u \o <<">", ";", "P">>

\* A resource served one item per page (one empty page when it has none),
\* each page linking to the next, and from the second on to the previous.
Pages(res, key, list) ==
    LET n == IF list = <<>> THEN 1 ELSE Len(list)
    IN  [k \in 1..n |->
            [body |-> [top |-> "dict",
                       fields |-> <<[key |-> key, list |-> TRUE,
                                     val |-> IF list = <<>> THEN <<>>
                                             ELSE <<list[k]>>]>>],
             link |-> (IF k > 1 THEN LinkBack(PageUrl(res, k - 1)) ELSE <<>>)
                      \o (IF k > 1 /\ k < n THEN <<",">> ELSE <<>>)
                      \o (IF k < n THEN LinkTo(PageUrl(res, k + 1)) ELSE <<>>)]]

\* The server that answers the URLs of the given page sequences
Serve(vpages, lpages) ==
    LET vurls == {PageUrl(VariantsUrl, k) : k \in DOMAIN vpages}
        lurls == {PageUrl(LevelsUrl, k) : k \in DOMAIN lpages}
    IN  [u \in vurls \cup lurls |->
            IF u \in vurls
            THEN vpages[CHOOSE k \in DOMAIN vpages : PageUrl(VariantsUrl, k) = u]
            ELSE lpages[CHOOSE k \in DOMAIN lpages : PageUrl(LevelsUrl, k) = u]]

PagedServer(vlist, llist) ==
    Serve(Pages(VariantsUrl, "variants", vlist),
          Pages(LevelsUrl, "inventory_levels", llist))

\* Two variants of the catalogue, as the source returns them
CatalogVariants ==
    <<[id |-> 1, inventory_item_id |-> 100, product_id |-> 55,
       sku |-> <<" ", "A", " ">>],
      [id |-> 2, inventory_item_id |-> 101, product_id |-> 66,
       sku |-> <<"B">>]>>

\* Inventory levels: of either catalogue variant, of an item no variant
\* has (its available no number), and one that carries neither location
\* nor available
LevelPool ==
    {[inventory_item_id |-> 100, location_id |-> 9, available |-> [num |-> 3]],
     [inventory_item_id |-> 101, location_id |-> 9, available |-> [num |-> 4]],
     [inventory_item_id |-> 999, location_id |-> 9,
      available |-> [text |-> <<"n", "/", "a">>]],
     [inventory_item_id |-> 100]}

\* A page an earlier run (or another writer) left in the store
OldPage(sku, u) ==
    [url |-> u,
     props |-> build_props([SKU |-> sku, VariantID |-> <<"7">>,
                            ProductID |-> <<"8">>, Available |-> <<[num |-> 1]>>,
                            LocationID |-> <<"9">>, LocationName |-> <<>>,
                            UpdatedAt |-> <<"S">>])]

\* Stores of at most n pages keyed (A, 9) or (B, 9), each with or without
\* a url; the url of the page at position i is <<i>>
StoresUpTo(n) ==
    UNION {{[i \in 1..k |-> OldPage(f[i][1], IF f[i][2] THEN <<i>> ELSE <<>>)] :
               f \in [1..k -> {<<"A">>, <<"B">>} \X BOOLEAN]} : k \in 0..n}

\* One run, alone, over the catalogue
Init ==
    \E lv \in SeqUpTo(LevelPool, MaxLevels), st \in StoresUpTo(MaxStore) :
        Start(PagedServer(CatalogVariants, lv), st, {1})

Spec == Init /\ [][Next]_vars

\* Variants with each key present or absent, and either product
VariantPool ==
    {[k \in K |-> CASE k = "id" -> 1
                    [] k = "inventory_item_id" -> 100
                    [] k = "sku" -> <<" ", "A", " ">>
                    [] k = "product_id" -> p] :
        K \in SUBSET {"id", "inventory_item_id", "sku", "product_id"},
        p \in {55, 66}}

\* The levels of the join specification: one of item 100, one of an item no
\* variant has
JoinLevels ==
    <<[inventory_item_id |-> 100, location_id |-> 9, available |-> [num |-> 3]],
      [inventory_item_id |-> 999, location_id |-> 9, available |-> [num |-> 0]]>>

\* One run over any variants, against a store that holds a page for (A, 9)
InitJoin ==
    \E vs \in SeqUpTo(VariantPool, MaxVariants) :
        Start(PagedServer(vs, JoinLevels), <<OldPage(<<"A">>, <<1>>)>>, {1})

SpecJoin == InitJoin /\ [][Next]_vars

\* Response bodies of the fetch specification: the known envelope, a body
\* where another known key comes first in the document, an uncatalogued
\* object with two arrays and a scalar, and a bare array
FetchBodies ==
    {[top |-> "dict",
      fields |-> <<[key |-> "variants", list |-> TRUE, val |-> <<[id |-> 1]>>]>>],
     [top |-> "dict",
      fields |-> <<[key |-> "products", list |-> TRUE, val |-> <<[id |-> 9]>>],
                   [key |-> "variants", list |-> TRUE,
                    val |-> <<[id |-> 1], [id |-> 2]>>]>>],
     [top |-> "dict",
      fields |-> <<[key |-> "foo", list |-> TRUE, val |-> <<[id |-> 3]>>],
                   [key |-> "count", list |-> FALSE, val |-> <<>>],
                   [key |-> "bar", list |-> TRUE, val |-> <<[id |-> 4]>>]>>],
     [top |-> "list", val |-> <<[id |-> 5]>>]}

\* Link headers: none, previous only, next to any page (alone or after a
\* previous), and rel="next" with no URL that can be cut out: bare, with
\* an empty <>, with a comma inside the URL, with a ">" ahead of the "<"
FetchLinks ==
    {<<>>, LinkBack(VariantsUrl), <<RelNext>>, <<"<", ">", ";", RelNext>>,
     <<"<", "v", ",", "2", ">", ";", RelNext>>,
     <<">", "<", "v", ">", ";", RelNext>>,
     LinkBack(VariantsUrl) \o <<",">> \o LinkTo(PageUrl(VariantsUrl, 2))}
    \cup {LinkTo(PageUrl(VariantsUrl, k)) : k \in 1..MaxPages}

\* One run against a source whose variant pages are any of these responses
\* and which has no inventory levels
InitFetch ==
    \E vp \in [1..MaxPages -> [body : FetchBodies, link : FetchLinks]] :
        Start(Serve(vp, Pages(LevelsUrl, "inventory_levels", <<>>)), <<>>, {1})

NextFetch == \E r \in Runs : GetPage(r) \/ RaiseForStatus(r)

SpecFetch == InitFetch /\ [][NextFetch]_vars

\* Two runs started together over the same source (one variant, one
\* inventory level) and the same store
InitConc ==
    \E lv \in {<<l>> : l \in LevelPool}, st \in StoresUpTo(MaxStore) :
        Start(PagedServer(SubSeq(CatalogVariants, 1, 1), lv), st, Runs)

SpecConc == InitConc /\ [][Next]_vars

-----------------------------------------------------------------------------
(* Properties of shopify_get_all (SpecFetch) *)

Max(S) == CHOOSE x \in S : \A y \in S : x >= y

IsVariantGet(c) ==
    c.run = 1 /\ c.kind = "GET" /\ c.phase = "get_variants" /\ c.ok

\* The responses the variants fetch of run 1 has received, in arrival order
Arrived == SelectSeq(calls, IsVariantGet)

\* shopify_get_all("variants.json") has returned to main
FetchReturned ==
    /\ pc[1] \notin {"idle", "get_variants"}
    /\ ~(pc[1] = "failed" /\ calls[Len(calls)].phase = "get_variants")

\* The comma-free stretch of the header around its first rel="next"
PartFrom(link) ==
    LET n == Min({i \in DOMAIN link : link[i] = RelNext})
        cs == {i \in 1..n : link[i] = ","}
    IN  IF cs = {} THEN 1 ELSE Max(cs) + 1

PartTo(link) ==
    LET n == Min({i \in DOMAIN link : link[i] = RelNext})
        cs == {i \in n..Len(link) : link[i] = ","}
    IN  IF cs = {} THEN Len(link) ELSE Min(cs) - 1

\* The URLs the header names as the next page: in that stretch the first
\* "<" comes before the first ">" and the URL is the non-empty text between
\* them (at most one; none when the header carries no rel="next")
NextNamed(link) ==
    IF ~HasNext(link) THEN {}
    ELSE LET a == PartFrom(link)
             b == PartTo(link)
         IN  {SubSeq(link, p[1] + 1, p[2] - 1) :
                 p \in {q \in (a..b) \X (a..b) :
                          /\ link[q[1]] = "<"
                          /\ \A k \in a..(q[1] - 1) : link[k] # "<"
                          /\ link[q[2]] = ">"
                          /\ \A k \in a..(q[2] - 1) : link[k] # ">"
                          /\ q[2] > q[1] + 1}}

NamesNext(link, u) == u \in NextNamed(link)

Unusable(link) == NextNamed(link) = {}

Contributions == [k \in DOMAIN Arrived |-> Contribution(Arrived[k].resp.body)]

\* C2 (as amended): when every response succeeds, the fetch returns the
\* pages' items concatenated in arrival order, n_1 + ... + n_k of them with
\* nothing dropped or deduplicated; it requests a further page, at the URL
\* the header names, exactly when the response names one, and so stops
\* exactly at the first response that either carries no rel="next" or
\* carries one from which no URL can be extracted.
C2_FetchConcatenatesAndStops ==
    /\ \A k \in DOMAIN Arrived :
          k < Len(Arrived) =>
              NamesNext(Arrived[k].resp.link, Arrived[k + 1].url)
    /\ (~FetchReturned /\ pc[1] # "idle" /\ Arrived # <<>>) =>
          ~Unusable(Arrived[Len(Arrived)].resp.link)
    /\ FetchReturned =>
          /\ Arrived # <<>>
          /\ variants[1] = Flatten(Contributions)
          /\ Len(variants[1]) = SumLen(Contributions)
          /\ Unusable(Arrived[Len(Arrived)].resp.link)

\* C2 as stated: the fetch stops exactly when a response carries no
\* rel="next".
C2_StopsOnlyWithoutRelNext ==
    /\ (~FetchReturned /\ pc[1] # "idle" /\ Arrived # <<>>) =>
          HasNext(Arrived[Len(Arrived)].resp.link)
    /\ FetchReturned =>
          /\ variants[1] = Flatten(Contributions)
          /\ ~HasNext(Arrived[Len(Arrived)].resp.link)

\* Two pages have arrived, with three items between them, and the fetch
\* has stopped at a second page whose header still carries rel="next".
C2_Witness ==
    /\ FetchReturned
    /\ Len(Arrived) = 2
    /\ Len(variants[1]) = 3
    /\ HasNext(Arrived[2].resp.link)

-----------------------------------------------------------------------------
(* Properties of the join (SpecJoin) *)

\* The variant most recently seen in vs whose key k holds x, if any
LastWith(vs, k, x) ==
    LET S == {i \in DOMAIN vs : k \in DOMAIN vs[i] /\ vs[i][k] = x}
    IN  IF S = {} THEN <<>> ELSE <<vs[Max(S)]>>

\* The variant the join gives level lvl: the last one with its
\* inventory_item_id
JoinedVariant(lvl) ==
    IF "inventory_item_id" \in DOMAIN lvl
    THEN LastWith(variants[1], "inventory_item_id", lvl.inventory_item_id)
    ELSE <<>>

\* t is s without its surrounding blanks
IsTrimOf(t, s) ==
    /\ \E a, b \in 0..Len(s) :
          /\ a + Len(t) + b = Len(s)
          /\ t = SubSeq(s, a + 1, a + Len(t))
          /\ \A i \in 1..a : s[i] = " "
          /\ \A i \in (Len(s) - b + 1)..Len(s) : s[i] = " "
    /\ t # <<>> => t[1] # " " /\ t[Len(t)] # " "

\* The decimal text of an id of the model
IsTextOf(t, n) ==
    \/ n = 1 /\ t = <<"1">>
    \/ n = 9 /\ t = <<"9">>
    \/ n = 55 /\ t = <<"5", "5">>
    \/ n = 66 /\ t = <<"6", "6">>

SkuAndVariantIdFrom(rw, v) ==
    /\ IF "sku" \in DOMAIN v THEN IsTrimOf(rw.SKU, v.sku) ELSE rw.SKU = <<>>
    /\ IF "id" \in DOMAIN v THEN IsTextOf(rw.VariantID, v.id)
       ELSE rw.VariantID = <<>>

\* The levels whose row has been built: all up to the loop position
Emitted == {i \in DOMAIN levels[1] : i <= idx[1]}

\* Row i went through notion_upsert: a create or update of it succeeded
Upserted(i, rw) ==
    \E k \in DOMAIN calls :
        /\ calls[k].run = 1 /\ calls[k].ok
        /\ calls[k].kind \in {"create", "update"}
        /\ calls[k].idx = i /\ calls[k].row = rw

JoinShape(i, rw) ==
    /\ csv[1][i + 1] = CsvLine(rw)
    /\ (i < idx[1] => Upserted(i, rw))
    /\ (JoinedVariant(levels[1][i]) = <<>> =>
           rw.SKU = <<>> /\ rw.VariantID = <<>> /\ rw.ProductID = <<>>)
    /\ (JoinedVariant(levels[1][i]) # <<>> =>
           SkuAndVariantIdFrom(rw, JoinedVariant(levels[1][i])[1]))

RowOf(i) ==
    IF i = idx[1] THEN row[1]
    ELSE calls[CHOOSE k \in DOMAIN calls :
                   calls[k].phase = "rows" /\ calls[k].idx = i].row

\* C5 (as amended): the row of every inventory level takes SKU (trimmed,
\* empty if absent) and Variant ID (as text, empty if absent) from the
\* variant most recently seen with the level's inventory_item_id, and
\* Product ID from mapping B: the product id, as text, of the variant most
\* recently seen with that variant's id (empty if the variant has no id or
\* that product id is absent); with no such variant all three are empty,
\* and the row is printed and upserted all the same.
C5_JoinLastWriteWins ==
    \A i \in Emitted :
        LET rw == RowOf(i)
            v == JoinedVariant(levels[1][i])
        IN  /\ JoinShape(i, rw)
            /\ v # <<>> =>
                  IF "id" \in DOMAIN v[1]
                  THEN LET w == LastWith(variants[1], "id", v[1].id)[1]
                       IN  IF "product_id" \in DOMAIN w
                           THEN IsTextOf(rw.ProductID, w.product_id)
                           ELSE rw.ProductID = <<>>
                  ELSE rw.ProductID = <<>>

\* C5 as stated: Product ID is the product id of the joined variant itself.
C5_ProductIdOfJoinedVariant ==
    \A i \in Emitted :
        LET rw == RowOf(i)
            v == JoinedVariant(levels[1][i])
        IN  /\ JoinShape(i, rw)
            /\ v # <<>> =>
                  IF "product_id" \in DOMAIN v[1]
                  THEN IsTextOf(rw.ProductID, v[1].product_id)
                  ELSE rw.ProductID = <<>>

\* A finished run in which two variants carried inventory item 100, the
\* later one with a sku, a product id and an id, the earlier one without a
\* sku: the first level joined the later one, the second level joined none.
C5_Witness ==
    /\ pc[1] = "done"
    /\ Len(variants[1]) = 2
    /\ "sku" \notin DOMAIN variants[1][1]
    /\ \A i \in 1..2 : "inventory_item_id" \in DOMAIN variants[1][i]
    /\ csv[1][2][1] = <<"A">>
    /\ csv[1][2][2] = <<"1">>
    /\ csv[1][2][3] = <<"6", "6">>
    /\ csv[1][3][1] = <<>> /\ csv[1][3][2] = <<>> /\ csv[1][3][3] = <<>>

-----------------------------------------------------------------------------
(* Properties of one run (Spec) *)

Writes == {"create", "update"}

\* The calls run r has issued for the level at position i, in order
RowCalls(r, i) ==
    LET OfRow(c) == c.run = r /\ c.phase = "rows" /\ c.idx = i
    IN  SelectSeq(calls, OfRow)

Kinds(cs) == [k \in DOMAIN cs |-> cs[k].kind]

KeyEmpty(rw) == rw.SKU = <<>> \/ rw.LocationID = <<>>

\* C3: a row whose SKU or Location ID is empty gets no lookup and no update,
\* only a create: exactly one once notion_upsert has returned, whatever the
\* store holds.
C3_EmptyKeyCreatesWithoutLookup ==
    \A i \in Emitted :
        KeyEmpty(RowOf(i)) =>
            LET cs == RowCalls(1, i)
            IN  /\ \A k \in DOMAIN cs : cs[k].kind = "create"
                /\ Len(cs) <= 1
                /\ (i = idx[1] /\ cs = <<>>) => pc[1] = "create"
                /\ i < idx[1] => Len(cs) = 1 /\ cs[1].ok

\* A finished run over a store that held a page: one row had no SKU, another
\* no Location ID, and each was created.
C3_Witness ==
    /\ pc[1] = "done"
    /\ store0 # <<>>
    /\ Len(levels[1]) = 2
    /\ RowOf(1).SKU = <<>> /\ RowOf(1).LocationID # <<>>
    /\ RowOf(2).LocationID = <<>> /\ RowOf(2).SKU # <<>>
    /\ Kinds(RowCalls(1, 1)) = <<"create">>
    /\ Kinds(RowCalls(1, 2)) = <<"create">>

IsOkCreate(c) == c.kind = "create" /\ c.ok

IsOkWrite(c) == c.kind \in Writes /\ c.ok

\* C4: a call that returns a non-success status is the last call of the
\* run: it is not retried, no call of any kind follows it, the loop does
\* not advance, and the pages written before it are still in the store.
C4_FailFast ==
    /\ \A k \in DOMAIN calls :
          ~calls[k].ok => k = Len(calls) /\ pc[1] = "failed"
    /\ pc[1] = "failed" =>
          /\ calls # <<>> /\ ~calls[Len(calls)].ok
          /\ calls[Len(calls)].idx = idx[1]
          /\ idx[1] <= Len(levels[1])
          /\ Len(csv[1]) = (IF calls[Len(calls)].phase = "rows"
                            THEN idx[1] + 1 ELSE 0)
    /\ Len(store) = Len(store0) + Len(SelectSeq(calls, IsOkCreate))
    /\ \A k \in DOMAIN calls :
          (IsOkWrite(calls[k])
             /\ \A j \in (k + 1)..Len(calls) : ~IsOkWrite(calls[j])) =>
                \E p \in DOMAIN store : store[p].props = build_props(calls[k].row)

\* The write of the second row failed after the first row was created: the
\* run has stopped and the first row's page is in the store.
C4_Witness ==
    /\ pc[1] = "failed"
    /\ idx[1] = 2
    /\ calls[Len(calls)].kind \in Writes
    /\ Len(levels[1]) = 2
    /\ Len(store) = Len(store0) + 1
    /\ Kinds(RowCalls(1, 1)) = <<"query", "create">>

\* The rows a create or update has written, as CSV lines, in order
WrittenLines ==
    LET w == SelectSeq(calls, IsOkWrite)
    IN  [k \in DOMAIN w |-> CsvLine(w[k].row)]

UniqueKeys(st) ==
    \A i, j \in DOMAIN st :
        (i # j /\ st[i].props.SKU # <<>> /\ st[i].props.LocationID # <<>>) =>
            ~(/\ st[i].props.SKU = st[j].props.SKU
              /\ st[i].props.LocationID = st[j].props.LocationID)

\* Every page a lookup has returned so far exposed a url
ReturnedHaveUrl ==
    \A k \in DOMAIN calls :
        (calls[k].kind = "query" /\ calls[k].ok /\ calls[k].existing # <<>>) =>
            calls[k].existing[1].url # <<>>

\* C7: a run on its own keeps non-empty keys unique, as long as they were
\* unique before it and every page its lookups return exposes a url.
C7_KeyUniquenessPreserved ==
    (UniqueKeys(store0) /\ ReturnedHaveUrl) => UniqueKeys(store)

\* A finished run that upserted the same key twice into a store that held
\* another key: one create, one update, still one page per key.
C7_Witness ==
    /\ pc[1] = "done"
    /\ UniqueKeys(store0) /\ ReturnedHaveUrl
    /\ Len(store0) = 1
    /\ Len(levels[1]) = 2
    /\ RowOf(1).SKU = RowOf(2).SKU /\ ~KeyEmpty(RowOf(1)) /\ ~KeyEmpty(RowOf(2))
    /\ Kinds(RowCalls(1, 1)) = <<"query", "create">>
    /\ Kinds(RowCalls(1, 2)) = <<"query", "update">>

\* The lookup and the write of the level at position i, once issued
LookupOf(i) == RowCalls(1, i)[1]

WriteOf(i) == RowCalls(1, i)[2]

\* notion_upsert was called for the levels at positions i and i + 1, one
\* after the other, with the same row and a non-empty key, both calls have
\* returned, and nothing has written since
UpsertedTwice(i) ==
    /\ i + 1 \in DOMAIN levels[1]
    /\ idx[1] = i + 2
    /\ RowOf(i) = RowOf(i + 1)
    /\ ~KeyEmpty(RowOf(i))

\* C1 (as amended): two successive notion_upsert calls with the same row and
\* a non-empty key leave exactly one page with that key, the second call
\* issuing an update, provided that the store held at most one page with
\* that key before the first call and that the page each lookup returns
\* exposes a url.
C1_UpsertTwiceLeavesOne ==
    \A i \in DOMAIN levels[1] :
        (/\ UpsertedTwice(i)
         /\ LookupOf(i).matching <= 1
         /\ \A j \in {i, i + 1} :
               LookupOf(j).existing # <<>> => LookupOf(j).existing[1].url # <<>>) =>
            /\ Cardinality(Matches(store, RowOf(i))) = 1
            /\ WriteOf(i + 1).kind = "update"

\* C1 as stated: whatever the store holds.
C1_UpsertTwiceAlwaysLeavesOne ==
    \A i \in DOMAIN levels[1] :
        UpsertedTwice(i) =>
            /\ Cardinality(Matches(store, RowOf(i))) = 1
            /\ WriteOf(i + 1).kind = "update"

\* The same row was upserted twice into a store without its key: a create,
\* then an update of the page just created.
C1_Witness ==
    /\ UpsertedTwice(1)
    /\ LookupOf(1).matching = 0
    /\ WriteOf(1).kind = "create"
    /\ WriteOf(2).kind = "update"
    /\ WriteOf(2).page_url = store[Len(store)].url
    /\ Cardinality(Matches(store, RowOf(1))) = 1

\* The write notion_upsert owes after a lookup returned existing
Owed(existing) ==
    IF existing = <<>> THEN "create"
    ELSE IF existing[1].url = <<>> THEN "create" ELSE "update"

C8_Decision ==
    /\ \A k \in DOMAIN calls :
          (calls[k].kind = "query" /\ calls[k].ok) =>
              /\ k < Len(calls) =>
                    /\ calls[k + 1].idx = calls[k].idx
                    /\ calls[k + 1].kind = Owed(calls[k].existing)
                    /\ calls[k + 1].kind = "update" /\ calls[k + 1].ok =>
                          calls[k + 1].page_url = calls[k].existing[1].url
              /\ k = Len(calls) =>
                    /\ pc[1] = Owed(calls[k].existing)
                    /\ pc[1] = "update" =>
                          page_url[1] = calls[k].existing[1].url
    /\ \A i \in Emitted :
          Cardinality({k \in DOMAIN calls :
                          /\ calls[k].phase = "rows" /\ calls[k].idx = i
                          /\ calls[k].kind \in Writes}) <= 1

\* A step that rewrites pages in place is the pending update, and it
\* rewrites only the page the lookup returned
C8_UpdateStep ==
    (Len(store') = Len(store) /\ store' # store) =>
        /\ pc[1] = "update"
        /\ calls[Len(calls)].kind = "query"
        /\ \A p \in DOMAIN store :
              store'[p] # store[p] =>
                  /\ store[p].url = calls[Len(calls)].existing[1].url
                  /\ store'[p].url = store[p].url
                  /\ store'[p].props = build_props(row[1])

\* C8: for a row with a non-empty key the write is an update of the first
\* page the lookup returned if and only if the lookup returned a page and
\* that page exposes a non-empty url, and a create in every other case;
\* one row never gets both, and an update changes no other page.
C8_UpdateIffMatchWithUrl == []C8_Decision /\ [][C8_UpdateStep]_vars

\* A finished run whose first lookup returned a page with a url (updated)
\* and whose second returned a page without one (created).
C8_Witness ==
    /\ pc[1] = "done"
    /\ Len(levels[1]) = 2
    /\ Kinds(RowCalls(1, 1)) = <<"query", "update">>
    /\ Kinds(RowCalls(1, 2)) = <<"query", "create">>
    /\ LookupOf(1).existing # <<>> /\ LookupOf(1).existing[1].url # <<>>
    /\ store # store0
    /\ LookupOf(2).existing # <<>> /\ LookupOf(2).existing[1].url = <<>>

PhaseRank(ph) ==
    CASE ph = "get_variants" -> 1 [] ph = "get_levels" -> 2 [] ph = "rows" -> 3

\* The pages the source holds of the resource at endpoint res
PagesOf(res) == {u \in DOMAIN server : u[1] = res[1]}

OkGets(ph) ==
    {k \in DOMAIN calls : calls[k].kind = "GET" /\ calls[k].phase = ph /\ calls[k].ok}

\* The order of a run's calls: the variant pages, all of them, then the
\* level pages, all of them, then the rows in level order, a row's first
\* call coming only after the write of the row before it has succeeded.
CallOrder ==
    /\ \A j, k \in DOMAIN calls :
          j < k =>
              /\ PhaseRank(calls[j].phase) <= PhaseRank(calls[k].phase)
              /\ (calls[j].phase = "rows" => calls[j].idx <= calls[k].idx)
    /\ (\E k \in DOMAIN calls : calls[k].phase # "get_variants") =>
          Cardinality(OkGets("get_variants")) = Cardinality(PagesOf(VariantsUrl))
    /\ (\E k \in DOMAIN calls : calls[k].phase = "rows") =>
          Cardinality(OkGets("get_levels")) = Cardinality(PagesOf(LevelsUrl))
    /\ \A i \in Emitted :
          (i > 1 /\ RowCalls(1, i) # <<>>) =>
              LET prev == RowCalls(1, i - 1)
              IN  IsOkWrite(prev[Len(prev)])

\* C9 (as amended): calls in that order; a row with a non-empty key gets
\* one query followed by one write, a row with an empty SKU or Location ID
\* gets one create and no query.
C9_SequentialCalls ==
    /\ CallOrder
    /\ \A i \in Emitted :
          LET ks == Kinds(RowCalls(1, i))
          IN  /\ KeyEmpty(RowOf(i)) => IsPrefix(ks, <<"create">>)
              /\ ~KeyEmpty(RowOf(i)) =>
                    \/ IsPrefix(ks, <<"query", "create">>)
                    \/ IsPrefix(ks, <<"query", "update">>)
              /\ i < idx[1] =>
                    Len(ks) = (IF KeyEmpty(RowOf(i)) THEN 1 ELSE 2)

\* C9 as stated: every row gets one query followed by one write.
C9_EveryRowQueriesThenWrites ==
    /\ CallOrder
    /\ \A i \in Emitted :
          LET ks == Kinds(RowCalls(1, i))
          IN  /\ \/ IsPrefix(ks, <<"query", "create">>)
                 \/ IsPrefix(ks, <<"query", "update">>)
              /\ i < idx[1] => Len(ks) = 2

\* A finished run of two rows: the first with a key (query, then a write),
\* the second without a SKU (a create only).
C9_Witness ==
    /\ pc[1] = "done"
    /\ Len(levels[1]) = 2
    /\ Len(Kinds(RowCalls(1, 1))) = 2
    /\ Kinds(RowCalls(1, 2)) = <<"create">>
    /\ Cardinality(OkGets("get_variants")) = 2
    /\ Cardinality(OkGets("get_levels")) = 2

-----------------------------------------------------------------------------
(* Properties of two concurrent runs (SpecConc) *)

SameKey(a, b) == a.SKU = b.SKU /\ a.LocationID = b.LocationID

\* Run r looked the key of rw up and the store returned no page
LookedUpNothing(r, rw) ==
    \E k \in DOMAIN calls :
        /\ calls[k].run = r /\ calls[k].kind = "query" /\ calls[k].ok
        /\ SameKey(calls[k].row, rw) /\ calls[k].existing = <<>>

\* Run r created a page for the key of rw
CreatedFor(r, rw) ==
    \E k \in DOMAIN calls :
        /\ calls[k].run = r /\ calls[k].kind = "create" /\ calls[k].ok
        /\ SameKey(calls[k].row, rw)

\* The call run r issued last before its call at position k
Before(r, k) == Max({j \in 1..(k - 1) : calls[j].run = r})

\* C10: with two runs at once the lookup and the write of one run are not
\* atomic.  Each run creates for a non-empty key only after its own lookup
\* returned nothing it could update, and a key the store did not hold ends
\* up on two pages (every returned page exposing a url) only when both runs
\* looked it up, both found nothing, and both created it; that state is
\* reachable (C10_Witness).
C10_DuplicatesOnlyByRace ==
    /\ \A k \in DOMAIN calls :
          (calls[k].kind = "create" /\ ~KeyEmpty(calls[k].row)) =>
              LET q == calls[Before(calls[k].run, k)]
              IN  /\ q.kind = "query" /\ q.ok
                  /\ q.row = calls[k].row
                  /\ Owed(q.existing) = "create"
    /\ \A p, q \in DOMAIN store :
          (/\ p # q
           /\ SameKey(store[p].props, store[q].props)
           /\ ~KeyEmpty(store[p].props)
           /\ \A o \in DOMAIN store0 : ~SameKey(store0[o].props, store[p].props)
           /\ ReturnedHaveUrl) =>
              \A r \in Runs :
                  LookedUpNothing(r, store[p].props) /\ CreatedFor(r, store[p].props)

\* Both runs have finished; the store, which held no page for the key, now
\* holds two: each run looked the key up before the other had written.
C10_Witness ==
    /\ \A r \in Runs : pc[r] = "done"
    /\ store0 = <<>>
    /\ Len(store) = 2
    /\ ~KeyEmpty(store[1].props)
    /\ SameKey(store[1].props, store[2].props)
    /\ store[1].url # <<>> /\ store[2].url # <<>>
    /\ \A r \in Runs : LookedUpNothing(r, store[1].props)
    /\ \A r \in Runs : CreatedFor(r, store[1].props)
====
